---- MODULE Spec2Model ----
(***************************************************************************)
(* A model of the sftpgo-api client library: the bearer-token provider     *)
(* (tokenProvider.Token), the request plugin that attaches the token, the  *)
(* typed client operations with their error classification, the paginated  *)
(* GetAllUsers loop and Users.Filter.                                      *)
(*                                                                         *)
(* Time is counted in whole seconds.  A time.Time is an integer, the zero  *)
(* time.Time is 0 and the clock starts at 0, so that the zero value is     *)
(* never "after" any clock reading.                                        *)
(***************************************************************************)
EXTENDS Integers, Sequences, FiniteSets, TLC

VARIABLES
    t,          \* the tokenProvider: Value, Expires, Username, Password
    now,        \* time.Now(), in seconds
    lastTok,    \* the last call of Token() by TokenCall: what it saw and did
    cli,        \* the client: whether it carries the token plugin
    op,         \* the last client operation: request, token, response, result
    ga,         \* the running GetAllUsers call: Input, all, pages, result
    users,      \* Users.Filter: the receiver
    pred,       \* Users.Filter: the predicate f, by name
    filtered,   \* Users.Filter: the returned list
    g,          \* concurrent callers of Token(): one record per goroutine
    words       \* t.Value in memory: its data and len words, the last writer

vars == <<t, now, lastTok, cli, op, ga, users, pred, filtered, g, words>>
clientVars == <<cli, op, ga>>
filterVars == <<users, pred, filtered>>
concVars == <<g, words>>

(***************************************************************************)
(* Bounds of the model.                                                    *)
(***************************************************************************)
MaxNow == 2
MaxTTL == 11
MaxFields == 2

(***************************************************************************)
(* Program constants.                                                      *)
(***************************************************************************)
Grace == 10

StatusOK == 200
StatusUnauthorized == 401
StatusForbidden == 403

(***************************************************************************)
(* Errors.  nil is Nil; the two sentinels are package variables; an        *)
(* apiError carries the decoded message and error texts.                   *)
(***************************************************************************)
Nil == [kind |-> "nil", Message |-> "", Err |-> ""]
ErrUnauthorized == [kind |-> "sentinel", Message |-> "", Err |-> "Unauthorized"]
ErrForbidden == [kind |-> "sentinel", Message |-> "", Err |-> "Forbidden"]
TransportErr == [kind |-> "transport", Message |-> "", Err |-> ""]
SyntaxErr == [kind |-> "decode", Message |-> "", Err |-> "syntax"]
TypeErr == [kind |-> "decode", Message |-> "", Err |-> "type"]
TimeErr == [kind |-> "decode", Message |-> "", Err |-> "time"]

apiError(message, err) == [kind |-> "api", Message |-> message, Err |-> err]

\* apiError.Error()
Error(e) == IF e.Err # "" THEN e.Err ELSE e.Message

(***************************************************************************)
(* JSON.  A body is not JSON at all (garbage), an object, given as its     *)
(* members in the order they appear, or an array of records.  A member's   *)
(* value is a string, a string in RFC 3339 form (a time) or a number.      *)
(***************************************************************************)
JStr(s) == [ty |-> "str", s |-> s, n |-> 0]
JTime(n) == [ty |-> "time", s |-> "rfc3339", n |-> n]
JNum == [ty |-> "num", s |-> "", n |-> 0]

Member(k, v) == [k |-> k, v |-> v]
Object(members) == [kind |-> "object", members |-> members, items |-> <<>>]
Array(items) == [kind |-> "array", members |-> <<>>, items |-> items]
Garbage == [kind |-> "garbage", members |-> <<>>, items |-> <<>>]

Tokens == {"tokA", "tokB"}
TTLs == {Grace, MaxTTL}

\* What a server may send in each member of a token response at time `clock`.
TokenMemberValues(k, clock) ==
    CASE k = "access_token" -> {JNum} \cup {JStr(s) : s \in Tokens}
      [] k = "expires_at" -> {JStr("soon")} \cup {JTime(clock + d) : d \in TTLs}
      [] k = "username" -> {JStr("mallory")}

\* The members a token response is drawn from.  "username" stands for the
\* members that match an untagged exported field (Username, Password).
TokenKeys == {"access_token", "expires_at", "username"}

RECURSIVE MemberSeqs(_, _, _)
\* The member lists of at most n members with distinct keys among `keys`.
MemberSeqs(keys, n, clock) ==
    IF n = 0 \/ keys = {} THEN {<<>>}
    ELSE {<<>>} \cup
         UNION {{<<Member(k, v)>> \o rest :
                    v \in TokenMemberValues(k, clock),
                    rest \in MemberSeqs(keys \ {k}, n - 1, clock)} : k \in keys}

TokenBodies(clock) ==
    {Garbage} \cup {Object(m) : m \in MemberSeqs(TokenKeys, MaxFields, clock)}

ErrorBodies ==
    {Garbage, Object(<<>>),
     Object(<<Member("error", JStr("bad request"))>>),
     Object(<<Member("message", JStr("x"))>>),
     Object(<<Member("message", JStr("x")), Member("error", JStr("bad request"))>>),
     Object(<<Member("error", JNum)>>)}

(***************************************************************************)
(* HTTP responses as the gentleman client hands them over: req.Do() fails  *)
(* (neterr) or yields a status code and a body.                            *)
(***************************************************************************)
Response(status, body) == [neterr |-> FALSE, status |-> status, body |-> body]
NetErr == [neterr |-> TRUE, status |-> 0, body |-> Garbage]
NoResp == [neterr |-> FALSE, status |-> 0, body |-> Garbage]

\* The status codes the servers answer with.
OkStatuses == {StatusOK, 204}
ErrStatuses == {StatusUnauthorized, StatusForbidden, 404, 500}

\* resp.Ok
RespOk(resp) == resp.status >= 200 /\ resp.status < 300

TokenResponses(clock) ==
    {NetErr}
    \cup {Response(StatusOK, b) : b \in TokenBodies(clock)}
    \cup {Response(204, Object(<<>>))}
    \cup {Response(s, b) : s \in ErrStatuses, b \in ErrorBodies}

RECURSIVE DecodeApiError(_, _, _)
\* json decoding of an object's members into an apiError; `saved` is the
\* first type error met, which the decoder reports once it is through.
DecodeApiError(e, members, saved) ==
    IF members = <<>> THEN [v |-> e, err |-> saved]
    ELSE LET m == Head(members)
             bad == IF saved = Nil THEN TypeErr ELSE saved
         IN  IF m.k \in {"error", "message"}
             THEN IF m.v.ty = "num"
                  THEN DecodeApiError(e, Tail(members), bad)
                  ELSE IF m.k = "error"
                       THEN DecodeApiError([e EXCEPT !.Err = m.v.s], Tail(members), saved)
                       ELSE DecodeApiError([e EXCEPT !.Message = m.v.s], Tail(members), saved)
             ELSE DecodeApiError(e, Tail(members), saved)

parseErrorResponseNoSentinel(resp) ==
    IF resp.body.kind # "object" THEN SyntaxErr
    ELSE LET d == DecodeApiError(apiError("", ""), resp.body.members, Nil)
         IN  IF d.err # Nil THEN d.err ELSE d.v

parseErrorResponseSwapped(resp) ==
    IF resp.status = StatusUnauthorized THEN ErrForbidden
    ELSE IF resp.status = StatusForbidden THEN ErrUnauthorized
    ELSE apiError("", "")

parseErrorResponse(resp) ==
    IF resp.status = StatusUnauthorized THEN ErrUnauthorized
    ELSE IF resp.status = StatusForbidden THEN ErrForbidden
    ELSE IF resp.body.kind = "garbage" THEN SyntaxErr
    ELSE IF resp.body.kind = "array" THEN TypeErr
    ELSE LET d == DecodeApiError(apiError("", ""), resp.body.members, Nil)
         IN  IF d.err # Nil THEN d.err ELSE d.v

(***************************************************************************)
(* The token provider.                                                     *)
(***************************************************************************)
NewTokenProvider(Username, Password) ==
    [Value |-> "", Expires |-> 0, Username |-> Username, Password |-> Password]

RECURSIVE DecodeToken(_, _, _)
\* resp.JSON(t): json decoding of an object's members into the tokenProvider
\* itself, member by member.  A member of the wrong JSON type is skipped and
\* remembered as the error to return; expires_at is decoded by
\* time.Time.UnmarshalJSON, whose error ends the decoding at once.  The
\* untagged exported fields Username and Password are decoded as well.
DecodeToken(tp, members, saved) ==
    IF members = <<>> THEN [t |-> tp, err |-> saved]
    ELSE LET m == Head(members)
             bad == IF saved = Nil THEN TypeErr ELSE saved
         IN  CASE m.k = "access_token" ->
                    IF m.v.ty = "num" THEN DecodeToken(tp, Tail(members), bad)
                    ELSE DecodeToken([tp EXCEPT !.Value = m.v.s], Tail(members), saved)
               [] m.k = "expires_at" ->
                    IF m.v.ty # "time" THEN [t |-> tp, err |-> TimeErr]
                    ELSE DecodeToken([tp EXCEPT !.Expires = m.v.n], Tail(members), saved)
               [] m.k = "username" ->
                    IF m.v.ty = "num" THEN DecodeToken(tp, Tail(members), bad)
                    ELSE DecodeToken([tp EXCEPT !.Username = m.v.s], Tail(members), saved)
               [] m.k = "password" ->
                    IF m.v.ty = "num" THEN DecodeToken(tp, Tail(members), bad)
                    ELSE DecodeToken([tp EXCEPT !.Password = m.v.s], Tail(members), saved)
               [] OTHER -> DecodeToken(tp, Tail(members), saved)

FreshAtGrace(tp, clock) == tp.Expires >= clock + Grace

FreshLate(tp, clock) == tp.Expires > clock + Grace + 1

\* t.Expires.After(time.Now().Add(time.Second * 10))
Fresh(tp, clock) == tp.Expires > clock + Grace

\* What a call of Token() leaves and returns; `requests` counts the requests
\* it sent to /api/v2/token.
TokenResult(tp, token, err, requests) ==
    [t |-> tp, token |-> token, err |-> err, requests |-> requests]

\* Token() from the request on: the stale branch.
Refresh(tp, resp) ==
    IF resp.neterr THEN TokenResult(tp, "", TransportErr, 1)
    ELSE IF RespOk(resp)
    THEN IF resp.body.kind = "garbage" THEN TokenResult(tp, "", SyntaxErr, 1)
         ELSE IF resp.body.kind = "array" THEN TokenResult(tp, "", TypeErr, 1)
         ELSE LET d == DecodeToken(tp, resp.body.members, Nil)
              IN  IF d.err # Nil THEN TokenResult(d.t, "", d.err, 1)
                  ELSE TokenResult(d.t, d.t.Value, Nil, 1)
    ELSE TokenResult(tp, "", parseErrorResponse(resp), 1)

\* tokenProvider.Token(), given the response the token endpoint would send.
Token(tp, clock, resp) ==
    IF Fresh(tp, clock) THEN TokenResult(tp, tp.Value, Nil, 0)
    ELSE Refresh(tp, resp)

NoCall == [called |-> FALSE, pre |-> NewTokenProvider("", ""), at |-> 0,
           resp |-> NoResp, token |-> "", err |-> Nil, requests |-> 0]

\* A caller invokes Token(): the whole call, the request to the token
\* endpoint included.  The endpoint's answer is drawn only when it is asked.
TokenCall ==
    /\ \E resp \in IF Fresh(t, now) THEN {NoResp} ELSE TokenResponses(now) :
          LET r == Token(t, now, resp)
          IN  /\ t' = r.t
              /\ lastTok' = [called |-> TRUE, pre |-> t, at |-> now, resp |-> resp,
                             token |-> r.token, err |-> r.err,
                             requests |-> r.requests]
    /\ UNCHANGED <<now, clientVars, filterVars, concVars>>

\* The clock advances by one second.
Tick ==
    /\ now < MaxNow
    /\ now' = now + 1
    /\ UNCHANGED <<t, lastTok, clientVars, filterVars, concVars>>

(***************************************************************************)
(* The client.                                                             *)
(***************************************************************************)
User(ID, Status, Username) == [ID |-> ID, Status |-> Status, Username |-> Username]

Digit(d) ==
    CASE d = 0 -> "0" [] d = 1 -> "1" [] d = 2 -> "2" [] d = 3 -> "3" [] d = 4 -> "4"
      [] d = 5 -> "5" [] d = 6 -> "6" [] d = 7 -> "7" [] d = 8 -> "8" [] d = 9 -> "9"

RECURSIVE Itoa(_)
\* strconv.Itoa
Itoa(n) ==
    IF n < 0 THEN "-" \o Itoa(-n)
    ELSE IF n < 10 THEN Digit(n)
    ELSE Itoa(n \div 10) \o Digit(n % 10)

\* NewClient: the client with the token plugin.  A client{cli: cli} built
\* around a plain gentleman client, as the test does, carries none.
NewClient == [tokenPlugin |-> TRUE]
PlainClient == [tokenPlugin |-> FALSE]

GetUsersInput(Offset, Limit, Order) == [Offset |-> Offset, Limit |-> Limit, Order |-> Order]

Request(Method, Path, Query) == [Method |-> Method, Path |-> Path, Query |-> Query]

\* req.SetQuery: the query is a set of <<name, value>> pairs.
SetQuery(query, name, value) == {q \in query : q[1] # name} \cup {<<name, value>>}

\* The request GetUsers builds.
GetUsersRequest(input) ==
    LET q1 == IF input.Offset > 0 THEN SetQuery({}, "offset", Itoa(input.Offset)) ELSE {}
        q2 == IF input.Limit > 0 THEN SetQuery(q1, "limit", Itoa(input.Limit)) ELSE q1
        q3 == IF input.Order # "" THEN SetQuery(q2, "order", input.Order) ELSE q2
    IN  Request("GET", "/api/v2/users", q3)

TokenPluginLax(tp, clock, tokResp) ==
    LET r == Token(tp, clock, tokResp)
    IN  [tok |-> r, next |-> TRUE, Authorization |-> "Bearer " \o r.token, err |-> Nil]

\* The request plugin of NewTokenPlugin: h.Next with the header set, or
\* h.Error with the error of Token().
TokenPlugin(tp, clock, tokResp) ==
    LET r == Token(tp, clock, tokResp)
    IN  IF r.err = Nil
        THEN [tok |-> r, next |-> TRUE, Authorization |-> "Bearer " \o r.token, err |-> Nil]
        ELSE [tok |-> r, next |-> FALSE, Authorization |-> "", err |-> r.err]

\* req.Do() on a request of client c: the plugins run, and the request is
\* sent unless one of them ended it with an error.
Do(c, tp, clock, tokResp, apiResp) ==
    IF c.tokenPlugin
    THEN LET p == TokenPlugin(tp, clock, tokResp)
         IN  IF p.next
             THEN [t |-> p.tok.t, asked |-> TRUE, tok |-> p.tok, sent |-> TRUE,
                   Authorization |-> p.Authorization, resp |-> apiResp,
                   err |-> IF apiResp.neterr THEN TransportErr ELSE Nil]
             ELSE [t |-> p.tok.t, asked |-> TRUE, tok |-> p.tok, sent |-> FALSE,
                   Authorization |-> "", resp |-> NoResp, err |-> p.err]
    ELSE [t |-> tp, asked |-> FALSE, tok |-> TokenResult(tp, "", Nil, 0), sent |-> TRUE,
          Authorization |-> "", resp |-> apiResp,
          err |-> IF apiResp.neterr THEN TransportErr ELSE Nil]

\* resp.JSON(&dest) for a slice: the records of a JSON array.
DecodeList(body) ==
    CASE body.kind = "garbage" -> [v |-> <<>>, err |-> SyntaxErr]
      [] body.kind = "object" -> [v |-> <<>>, err |-> TypeErr]
      [] body.kind = "array" -> [v |-> body.items, err |-> Nil]

\* doJSON followed by the caller's "if err != nil return nil, err".
doJSON(d) ==
    IF d.err # Nil THEN [v |-> <<>>, err |-> d.err]
    ELSE IF RespOk(d.resp)
    THEN LET r == DecodeList(d.resp.body)
         IN  IF r.err # Nil THEN [v |-> <<>>, err |-> r.err] ELSE r
    ELSE [v |-> <<>>, err |-> parseErrorResponse(d.resp)]

\* StartUserQuotaScan from req.Do() on.
StartUserQuotaScanResult(d) ==
    IF d.err # Nil THEN [v |-> <<>>, err |-> d.err]
    ELSE IF RespOk(d.resp) THEN [v |-> <<>>, err |-> Nil]
    ELSE [v |-> <<>>, err |-> parseErrorResponse(d.resp)]

\* TerminateActiveConnection from req.Do() on.
TerminateActiveConnectionResult(d) ==
    IF d.err # Nil THEN [v |-> <<>>, err |-> d.err]
    ELSE IF RespOk(d.resp) THEN [v |-> <<>>, err |-> Nil]
    ELSE [v |-> <<>>, err |-> parseErrorResponse(d.resp)]

TerminateActiveConnectionRequest(connectionID) ==
    Request("DELETE", "/api/v2/connections/" \o connectionID, {})

\* The page size of GetAllUsers.
Limit == 500

LastPageOrFull(page, input) == Len(page) <= input.Limit

\* len(page) < Input.Limit
LastPage(page, input) == Len(page) < input.Limit

GetAllUsersStart ==
    [pc |-> "loop", Input |-> GetUsersInput(0, Limit, ""), all |-> <<>>,
     calls |-> <<>>, pages |-> <<>>, users |-> <<>>, err |-> Nil]

GetAllUsersIdle ==
    [pc |-> "idle", Input |-> GetUsersInput(0, 0, ""), all |-> <<>>,
     calls |-> <<>>, pages |-> <<>>, users |-> <<>>, err |-> Nil]

GetAllUsersKeepsPartial(st, r) ==
    LET called == [st EXCEPT !.calls = Append(@, st.Input)]
    IN  IF r.err # Nil
        THEN [called EXCEPT !.pc = "done", !.users = st.all, !.err = r.err]
        ELSE LET all == st.all \o r.v
                 got == [called EXCEPT !.all = all, !.pages = Append(@, r.v)]
             IN  IF LastPage(r.v, st.Input)
                 THEN [got EXCEPT !.pc = "done", !.users = all, !.err = Nil]
                 ELSE [got EXCEPT !.Input.Offset = @ + st.Input.Limit]

\* One iteration of the loop of GetAllUsers, r being what GetUsers returned.
\* calls and pages log the inputs passed to GetUsers and the pages received.
GetAllUsersIteration(st, r) ==
    LET called == [st EXCEPT !.calls = Append(@, st.Input)]
    IN  IF r.err # Nil
        THEN [called EXCEPT !.pc = "done", !.users = <<>>, !.err = r.err]
        ELSE LET all == st.all \o r.v
                 got == [called EXCEPT !.all = all, !.pages = Append(@, r.v)]
             IN  IF LastPage(r.v, st.Input)
                 THEN [got EXCEPT !.pc = "done", !.users = all, !.err = Nil]
                 ELSE [got EXCEPT !.Input.Offset = @ + st.Input.Limit]

(***************************************************************************)
(* What the servers answer to the client's requests.                       *)
(***************************************************************************)
MaxPages == 3
ShortPage == 10

\* The token endpoint, as far as the client operations are concerned.
ClientTokenResponses(clock) ==
    {NetErr, Response(StatusUnauthorized, Object(<<>>)),
     Response(StatusForbidden, Garbage),
     Response(StatusOK, Object(<<Member("access_token", JStr("tokA")),
                                 Member("expires_at", JTime(clock + Grace))>>)),
     Response(StatusOK, Object(<<Member("access_token", JStr("tokB")),
                                 Member("expires_at", JTime(clock + MaxTTL))>>))}

BadRequest == Object(<<Member("error", JStr("bad request"))>>)

ErrorResponses ==
    {Response(s, b) : s \in {StatusUnauthorized, StatusForbidden},
                      b \in {Garbage, BadRequest}}
    \cup {Response(404, b) :
            b \in {Garbage, BadRequest, Object(<<Member("message", JStr("x"))>>)}}

ConnectionIDs == {"SFTP_001", "SFTP_002"}

UserLists == {<<User(1, 1, "u1"), User(2, 0, "u2")>>}
ScanLists == {<<[Username |-> "u1", Start |-> 1]>>}
ConnectionLists == {<<[ConnectionID |-> "SFTP_001", Username |-> "u1"]>>}

ListResponses(lists) ==
    {NetErr, Response(StatusOK, Garbage)}
    \cup {Response(StatusOK, Array(l)) : l \in lists}
    \cup ErrorResponses

PlainResponses ==
    {NetErr} \cup {Response(s, Object(<<>>)) : s \in OkStatuses} \cup ErrorResponses

\* The page of n users a server holds at `offset`.
Page(offset, n) == [i \in 1..n |-> User(offset + i, 1, "u")]

PageLens == {0, ShortPage, Limit - 1, Limit}

\* The answers to the request for the page at input.Offset, `asked` pages
\* having been asked before: a server holds fewer than MaxPages full pages.
PageResponses(input, asked) ==
    {NetErr, Response(StatusOK, Garbage), Response(StatusUnauthorized, Object(<<>>)),
     Response(500, BadRequest)}
    \cup {Response(StatusOK, Array(Page(input.Offset, n))) :
            n \in {m \in PageLens : m < input.Limit \/ asked + 1 < MaxPages}}

\* The token endpoint is asked only by a client with the plugin whose token
\* is stale.
TokenAnswers ==
    IF cli.tokenPlugin /\ ~Fresh(t, now) THEN ClientTokenResponses(now) ELSE {NoResp}

NoOp == [name |-> "none", arg |-> "", req |-> Request("", "", {}), asked |-> FALSE,
         tokResp |-> NoResp, tok |-> [token |-> "", err |-> Nil, requests |-> 0],
         sent |-> FALSE, Authorization |-> "", resp |-> NoResp, v |-> <<>>,
         err |-> Nil, again |-> FALSE]

\* The record of an operation: its request, whether the plugin asked for a
\* token, what the token endpoint answered and Token() returned, whether the
\* request was sent and with which header, the response and what the
\* operation returned.  `again` marks a call that repeats the previous one.
Operation(name, arg, req, tokResp, d, r) ==
    [name |-> name, arg |-> arg, req |-> req, asked |-> d.asked, tokResp |-> tokResp,
     tok |-> [token |-> d.tok.token, err |-> d.tok.err, requests |-> d.tok.requests],
     sent |-> d.sent, Authorization |-> d.Authorization, resp |-> d.resp,
     v |-> r.v, err |-> r.err, again |-> (op.name = name /\ op.arg = arg)]

GetUsers ==
    /\ ga.pc = "idle"
    /\ \E input \in {GetUsersInput(0, 0, ""), GetUsersInput(0, Limit, "ASC"),
                      GetUsersInput(Limit, Limit, "")},
          tokResp \in TokenAnswers, apiResp \in ListResponses(UserLists) :
          LET d == Do(cli, t, now, tokResp, apiResp)
              r == doJSON(d)
          IN  /\ t' = d.t
              /\ op' = Operation("GetUsers", Itoa(input.Offset), GetUsersRequest(input),
                                 tokResp, d, r)
    /\ UNCHANGED <<now, lastTok, cli, ga, filterVars, concVars>>

GetUserQuotaScans ==
    /\ ga.pc = "idle"
    /\ \E tokResp \in TokenAnswers, apiResp \in ListResponses(ScanLists) :
          LET d == Do(cli, t, now, tokResp, apiResp)
              r == doJSON(d)
          IN  /\ t' = d.t
              /\ op' = Operation("GetUserQuotaScans", "",
                                 Request("GET", "/api/v2/quota-scans", {}), tokResp, d, r)
    /\ UNCHANGED <<now, lastTok, cli, ga, filterVars, concVars>>

GetActiveConnections ==
    /\ ga.pc = "idle"
    /\ \E tokResp \in TokenAnswers, apiResp \in ListResponses(ConnectionLists) :
          LET d == Do(cli, t, now, tokResp, apiResp)
              r == doJSON(d)
          IN  /\ t' = d.t
              /\ op' = Operation("GetActiveConnections", "",
                                 Request("GET", "/api/v2/connections", {}), tokResp, d, r)
    /\ UNCHANGED <<now, lastTok, cli, ga, filterVars, concVars>>

StartUserQuotaScan ==
    /\ ga.pc = "idle"
    /\ \E name \in {"u1"}, tokResp \in TokenAnswers, apiResp \in PlainResponses :
          LET d == Do(cli, t, now, tokResp, apiResp)
              r == StartUserQuotaScanResult(d)
          IN  /\ t' = d.t
              /\ op' = Operation("StartUserQuotaScan", name,
                                 Request("POST", "/api/v2/quota-scans", {}), tokResp, d, r)
    /\ UNCHANGED <<now, lastTok, cli, ga, filterVars, concVars>>

TerminateActiveConnection ==
    /\ ga.pc = "idle"
    /\ \E connectionID \in ConnectionIDs, tokResp \in TokenAnswers,
          apiResp \in PlainResponses :
          LET d == Do(cli, t, now, tokResp, apiResp)
              r == TerminateActiveConnectionResult(d)
          IN  /\ t' = d.t
              /\ op' = Operation("TerminateActiveConnection", connectionID,
                                 TerminateActiveConnectionRequest(connectionID),
                                 tokResp, d, r)
    /\ UNCHANGED <<now, lastTok, cli, ga, filterVars, concVars>>

\* GetAllUsers is called: Input and all are set up.
GetAllUsersCall ==
    /\ ga.pc = "idle"
    /\ ga' = GetAllUsersStart
    /\ UNCHANGED <<t, now, lastTok, cli, op, filterVars, concVars>>

\* One iteration of GetAllUsers: the call of GetUsers and what follows it.
GetAllUsersPage ==
    /\ ga.pc = "loop"
    /\ \E tokResp \in TokenAnswers,
          apiResp \in PageResponses(ga.Input, Len(ga.calls)) :
          LET d == Do(cli, t, now, tokResp, apiResp)
              r == doJSON(d)
          IN  /\ t' = d.t
              /\ op' = Operation("GetUsers", Itoa(ga.Input.Offset),
                                 GetUsersRequest(ga.Input), tokResp, d, r)
              /\ ga' = GetAllUsersIteration(ga, r)
    /\ UNCHANGED <<now, lastTok, cli, filterVars, concVars>>

\* GetAllUsers has returned ga.users and ga.err; its caller goes on.
GetAllUsersReturn ==
    /\ ga.pc = "done"
    /\ ga' = GetAllUsersIdle
    /\ UNCHANGED <<t, now, lastTok, cli, op, filterVars, concVars>>

(***************************************************************************)
(* Users.Filter.                                                           *)
(***************************************************************************)
MaxUsers == 3

\* The predicates handed to Filter, by name.
UserFilterFunc(f, user) ==
    CASE f = "IDgt1" -> user.ID > 1
      [] f = "active" -> user.Status = 1
      [] f = "all" -> TRUE
      [] f = "nobody" -> FALSE

UserFilterFuncs == {"IDgt1", "active", "all", "nobody"}

RECURSIVE FilterInPlace(_, _, _, _)
FilterInPlace(us, f, i, n) ==
    IF i > Len(us) THEN [users |-> us, Results |-> SubSeq(us, 1, n)]
    ELSE IF UserFilterFunc(f, us[i])
         THEN FilterInPlace([us EXCEPT ![n + 1] = us[i]], f, i + 1, n + 1)
         ELSE FilterInPlace(us, f, i + 1, n)

FilterReusingBacking(us, f) == FilterInPlace(us, f, 1, 0)

RECURSIVE FilterLoop(_, _, _, _)
\* The loop of Filter from index i on, Results being what it has appended.
FilterLoop(us, f, i, Results) ==
    IF i > Len(us) THEN [users |-> us, Results |-> Results]
    ELSE IF UserFilterFunc(f, us[i])
         THEN FilterLoop(us, f, i + 1, Append(Results, us[i]))
         ELSE FilterLoop(us, f, i + 1, Results)

\* Users.Filter: the receiver as the call leaves it, and the returned list.
Filter(us, f) == FilterLoop(us, f, 1, <<>>)

SomeUsers == {User(1, 1, "u1"), User(2, 0, "u2"), User(2, 1, "u3"), User(3, 1, "u1")}

UserSeqs == UNION {[1..n -> SomeUsers] : n \in 0..MaxUsers}

FilterCall ==
    /\ \E f \in UserFilterFuncs :
          LET r == Filter(users, f)
          IN  /\ users' = r.users
              /\ pred' = f
              /\ filtered' = r.Results
    /\ UNCHANGED <<t, now, lastTok, clientVars, concVars>>

(***************************************************************************)
(* Token() called from two goroutines.  The provider is shared and nothing *)
(* orders its reads and writes: a call is a sequence of steps, and a store *)
(* of t.Value is two stores, of its data word and of its len word.         *)
(***************************************************************************)
MaxCalls == 2

Goroutines == {1, 2}

Other(i) == 3 - i

\* The string whose data word is `data` and whose len word is `len`: a
\* string of the program, or a torn one.
StringOf(data, len) ==
    IF data = len THEN data ELSE "torn(" \o data \o "," \o len \o ")"

Idle(calls) ==
    [pc |-> "idle", calls |-> calls, stale |-> FALSE, overlapped |-> FALSE,
     requests |-> 0, resp |-> NoResp, todo |-> <<>>, saved |-> Nil, data |-> "",
     token |-> "", err |-> Nil]

Active(i) == g[i].pc \notin {"idle", "done"}

RECURSIVE StoresOf(_, _)
\* The stores json decoding makes for an object's members, in order, and
\* the error it ends with: see DecodeToken.
StoresOf(members, saved) ==
    IF members = <<>> THEN [todo |-> <<>>, err |-> saved]
    ELSE LET m == Head(members)
             bad == IF saved = Nil THEN TypeErr ELSE saved
             rest == StoresOf(Tail(members), saved)
             Then(stores) == [todo |-> stores \o rest.todo, err |-> rest.err]
         IN  CASE m.k = "access_token" ->
                    IF m.v.ty = "num" THEN StoresOf(Tail(members), bad)
                    ELSE Then(<<[w |-> "data", s |-> m.v.s, n |-> 0],
                                [w |-> "len", s |-> m.v.s, n |-> 0]>>)
               [] m.k = "expires_at" ->
                    IF m.v.ty # "time" THEN [todo |-> <<>>, err |-> TimeErr]
                    ELSE Then(<<[w |-> "Expires", s |-> "", n |-> m.v.n]>>)
               [] m.k = "username" ->
                    IF m.v.ty = "num" THEN StoresOf(Tail(members), bad)
                    ELSE Then(<<[w |-> "Username", s |-> m.v.s, n |-> 0]>>)
               [] OTHER -> rest

\* The token endpoint, as far as the concurrent callers are concerned.
ConcResponses(clock) ==
    {Response(StatusUnauthorized, Object(<<>>)),
     Response(StatusOK, Object(<<Member("access_token", JStr("tokA")),
                                 Member("expires_at", JTime(clock + MaxTTL))>>)),
     Response(StatusOK, Object(<<Member("expires_at", JTime(clock + MaxTTL + 1)),
                                 Member("access_token", JStr("tokB"))>>))}

SendsUnlessInFlight(tp, clock, inflight) == ~Fresh(tp, clock) /\ ~inflight

\* Whether a call sends a request: the test of t.Expires alone, whether or
\* not another call's request is in flight.
SendsRequest(tp, clock, inflight) == ~Fresh(tp, clock)

\* Token() is entered: t.Expires is read and compared, and the request is
\* sent when the token is stale.
Enter(i) ==
    /\ g[i].pc = "idle"
    /\ g[i].calls < MaxCalls
    /\ LET o == Other(i)
           sends == SendsRequest(t, now, g[o].pc = "wait")
           me == [g[i] EXCEPT !.pc = IF sends THEN "wait" ELSE "load",
                              !.calls = @ + 1, !.stale = (t.Expires <= now + 10),
                              !.overlapped = Active(o),
                              !.requests = IF sends THEN 1 ELSE 0]
       IN  g' = [g EXCEPT ![i] = me,
                          ![o].overlapped = @ \/ Active(o)]
    /\ UNCHANGED <<t, now, lastTok, clientVars, filterVars, words>>

Returned(r, token, err) ==
    [r EXCEPT !.pc = "done", !.token = token, !.err = err]

\* req.Do() returns: the error is returned, or the decoding begins.
Respond(i) ==
    /\ g[i].pc = "wait"
    /\ \E resp \in ConcResponses(now) :
          LET r == [g[i] EXCEPT !.resp = resp]
          IN  g' = [g EXCEPT ![i] =
                      IF resp.neterr THEN Returned(r, "", TransportErr)
                      ELSE IF ~RespOk(resp)
                      THEN Returned(r, "", parseErrorResponse(resp))
                      ELSE IF resp.body.kind = "garbage"
                      THEN Returned(r, "", SyntaxErr)
                      ELSE IF resp.body.kind = "array"
                      THEN Returned(r, "", TypeErr)
                      ELSE LET d == StoresOf(resp.body.members, Nil)
                           IN  IF d.todo = <<>>
                               THEN IF d.err # Nil THEN Returned(r, "", d.err)
                                    ELSE [r EXCEPT !.pc = "load"]
                               ELSE [r EXCEPT !.pc = "store", !.todo = d.todo,
                                              !.saved = d.err]]
    /\ UNCHANGED <<t, now, lastTok, clientVars, filterVars, words>>

\* resp.JSON(t) makes its next store into the provider.
Store(i) ==
    /\ g[i].pc = "store"
    /\ LET st == Head(g[i].todo)
           w == CASE st.w = "data" -> [words EXCEPT !.data = st.s, !.last = i]
                  [] st.w = "len" -> [words EXCEPT !.len = st.s, !.last = i]
                  [] OTHER -> [words EXCEPT !.last = i]
           tp == CASE st.w = "Expires" -> [t EXCEPT !.Expires = st.n]
                   [] st.w = "Username" -> [t EXCEPT !.Username = st.s]
                   [] OTHER -> [t EXCEPT !.Value = StringOf(w.data, w.len)]
           r == [g[i] EXCEPT !.todo = Tail(@)]
       IN  /\ words' = w
           /\ t' = tp
           /\ g' = [g EXCEPT ![i] =
                      IF r.todo # <<>> THEN r
                      ELSE IF r.saved # Nil
                      THEN Returned(r, "", r.saved)
                      ELSE [r EXCEPT !.pc = "load"]]
    /\ UNCHANGED <<now, lastTok, clientVars, filterVars>>

\* return t.Value, nil: the data word is loaded.
LoadData(i) ==
    /\ g[i].pc = "load"
    /\ g' = [g EXCEPT ![i].pc = "load2", ![i].data = words.data]
    /\ UNCHANGED <<t, now, lastTok, clientVars, filterVars, words>>

\* return t.Value, nil: the len word is loaded and the call returns.
LoadLen(i) ==
    /\ g[i].pc = "load2"
    /\ g' = [g EXCEPT ![i] = Returned(g[i], StringOf(g[i].data, words.len), Nil)]
    /\ UNCHANGED <<t, now, lastTok, clientVars, filterVars, words>>

\* The caller takes the result and may call again.
Return(i) ==
    /\ g[i].pc = "done"
    /\ g' = [g EXCEPT ![i] = Idle(g[i].calls)]
    /\ UNCHANGED <<t, now, lastTok, clientVars, filterVars, words>>

(***************************************************************************)
(* Specifications.                                                         *)
(***************************************************************************)
InitToken ==
    /\ t = NewTokenProvider("admin", "secret")
    /\ now = 0
    /\ lastTok = NoCall

InitClient ==
    /\ cli = NewClient
    /\ op = NoOp
    /\ ga = GetAllUsersIdle

InitFilter ==
    /\ users = <<>>
    /\ pred = "none"
    /\ filtered = <<>>

InitConc ==
    /\ g = [i \in Goroutines |-> Idle(0)]
    /\ words = [data |-> "", len |-> "", last |-> 0]

\* Token() called by one caller at a time, and the clock.
Init == InitToken /\ InitClient /\ InitFilter /\ InitConc

Next == TokenCall \/ Tick

Spec == Init /\ [][Next]_vars

\* The operations of a client, called one at a time, and the clock.
InitOps ==
    /\ InitToken
    /\ cli \in {NewClient, PlainClient}
    /\ op = NoOp
    /\ ga = GetAllUsersIdle
    /\ InitFilter
    /\ InitConc

NextOps ==
    \/ GetUsers
    \/ GetUserQuotaScans
    \/ GetActiveConnections
    \/ StartUserQuotaScan
    \/ TerminateActiveConnection
    \/ Tick

SpecClient == InitOps /\ [][NextOps]_vars

\* GetAllUsers on a client made by NewClient, and the clock.
NextPages ==
    \/ GetAllUsersCall
    \/ GetAllUsersPage
    \/ GetAllUsersReturn
    \/ Tick

SpecPages == Init /\ [][NextPages]_vars

\* Users.Filter on every list of at most MaxUsers users.
InitUsers ==
    /\ InitToken
    /\ InitClient
    /\ users \in UserSeqs
    /\ pred = "none"
    /\ filtered = <<>>
    /\ InitConc

NextFilter == FilterCall

SpecFilter == InitUsers /\ [][NextFilter]_vars

\* Token() called from two goroutines, and the clock.
NextConc ==
    \/ \E i \in Goroutines : Enter(i)
    \/ \E i \in Goroutines : Respond(i)
    \/ \E i \in Goroutines : Store(i)
    \/ \E i \in Goroutines : LoadData(i)
    \/ \E i \in Goroutines : LoadLen(i)
    \/ \E i \in Goroutines : Return(i)
    \/ Tick

SpecConc == Init /\ [][NextConc]_vars

(***************************************************************************)
(* Claims about Token() called by one caller at a time (Spec).             *)
(***************************************************************************)

\* The call lastTok records found the cache stale: expiry at most 10 seconds
\* after the clock reading.
StaleCall == lastTok.called /\ lastTok.pre.Expires <= lastTok.at + 10

\* The value of the member k of a body, or `none` when the body has none.
MemberOf(body, k, none) ==
    IF \E i \in 1..Len(body.members) : body.members[i].k = k
    THEN body.members[CHOOSE i \in 1..Len(body.members) : body.members[i].k = k].v
    ELSE none

\* A 2xx response that is a token: a JSON object with a string access_token
\* and an RFC 3339 expires_at, and no member of a wrong JSON type.
TokenResponse(resp) ==
    /\ ~resp.neterr
    /\ resp.status \in 200..299
    /\ resp.body.kind = "object"
    /\ MemberOf(resp.body, "access_token", JNum).ty = "str"
    /\ MemberOf(resp.body, "expires_at", JNum).ty = "time"
    /\ \A i \in 1..Len(resp.body.members) : resp.body.members[i].v.ty # "num"

\* C1: a call of Token() made while the cached expiry is strictly more than
\* 10 seconds after the clock returns the cached value with no error, sends
\* no request to the token endpoint and leaves the provider as it was,
\* whatever calls and clock advances came before.
C1_FreshTokenReused ==
    (lastTok.called /\ lastTok.pre.Expires > lastTok.at + 10)
        => /\ lastTok.token = lastTok.pre.Value
           /\ lastTok.err = Nil
           /\ lastTok.requests = 0
           /\ t = lastTok.pre

\* C1 witness: after an earlier refresh and a clock advance, a call finds a
\* cached token that still has more than 10 seconds and reuses it.
C1_Witness ==
    /\ lastTok.called
    /\ lastTok.at > 0
    /\ lastTok.pre.Expires > lastTok.at + 10
    /\ lastTok.pre.Value \in Tokens
    /\ lastTok.token = lastTok.pre.Value

\* C2 as stated: a call of Token() that finds the cache stale sends exactly
\* one request, and on any 2xx response the cache holds the response's
\* value and expiry and the call returns that value.
C2_AsStated ==
    StaleCall
        => /\ lastTok.requests = 1
           /\ (~lastTok.resp.neterr /\ lastTok.resp.status \in 200..299)
                => /\ lastTok.err = Nil
                   /\ JStr(lastTok.token) = MemberOf(lastTok.resp.body, "access_token", JNum)
                   /\ JStr(t.Value) = MemberOf(lastTok.resp.body, "access_token", JNum)
                   /\ JTime(t.Expires) = MemberOf(lastTok.resp.body, "expires_at", JNum)

\* C2 amended: a call of Token() that finds the cache stale (expired, never
\* fetched or within 10 seconds of expiry) sends exactly one request to the
\* token endpoint, and on a 2xx response whose body is a token (a JSON
\* object with a string access_token, an RFC 3339 expires_at and no member
\* of a wrong type) the cache holds the response's value and expiry and the
\* call returns that value without error.
C2_StaleTokenRefreshedOnce ==
    StaleCall
        => /\ lastTok.requests = 1
           /\ TokenResponse(lastTok.resp)
                => /\ lastTok.err = Nil
                   /\ JStr(lastTok.token) = MemberOf(lastTok.resp.body, "access_token", JNum)
                   /\ JStr(t.Value) = MemberOf(lastTok.resp.body, "access_token", JNum)
                   /\ JTime(t.Expires) = MemberOf(lastTok.resp.body, "expires_at", JNum)

\* C2 witness: a cached token within 10 seconds of its expiry is replaced
\* by a different token with a later expiry.
C2_Witness ==
    /\ StaleCall
    /\ lastTok.pre.Value \in Tokens
    /\ TokenResponse(lastTok.resp)
    /\ lastTok.token \in Tokens \ {lastTok.pre.Value}
    /\ t.Expires > lastTok.pre.Expires

\* C9: a call of Token() whose refresh fails (no response, a non-2xx
\* response or a 2xx body that cannot be decoded) returns the empty token
\* with the error after its single request, and value, expiry, username and
\* password of the provider are as they were before the call.
C9_FailedRefreshLeavesCache ==
    (lastTok.called /\ lastTok.requests > 0 /\ lastTok.err # Nil)
        => /\ lastTok.token = ""
           /\ lastTok.requests = 1
           /\ t = lastTok.pre

(***************************************************************************)
(* Claims about the client's operations (SpecClient).                      *)
(***************************************************************************)

\* C5: an operation whose request is answered with status 401 returns the
\* sentinel ErrUnauthorized, and with status 403 ErrForbidden, whatever the
\* body; so does Token() when the token endpoint answers so, and the
\* operation that asked for the token returns the same sentinel.
C5_SentinelErrors ==
    /\ (op.sent /\ ~op.resp.neterr /\ op.resp.status = 401) => op.err = ErrUnauthorized
    /\ (op.sent /\ ~op.resp.neterr /\ op.resp.status = 403) => op.err = ErrForbidden
    /\ (op.tok.requests = 1 /\ ~op.tokResp.neterr /\ op.tokResp.status = 401)
         => op.tok.err = ErrUnauthorized /\ op.err = ErrUnauthorized
    /\ (op.tok.requests = 1 /\ ~op.tokResp.neterr /\ op.tokResp.status = 403)
         => op.tok.err = ErrForbidden /\ op.err = ErrForbidden

\* C5 witness: StartUserQuotaScan is answered 403 with a JSON error body.
C5_Witness ==
    /\ op.name = "StartUserQuotaScan"
    /\ op.sent
    /\ op.resp = Response(403, BadRequest)
    /\ op.err = ErrForbidden

\* C6: for every operation of a client made by NewClient the plugin asks the
\* provider for a token; when Token() succeeds the request is sent with the
\* header Authorization: Bearer <that token>, and when it fails the request
\* is not sent and the operation returns the error of Token().
C6_BearerTokenAttached ==
    (cli.tokenPlugin /\ op.name # "none")
        => /\ op.asked
           /\ op.tok.err = Nil
                => /\ op.sent
                   /\ op.Authorization = "Bearer " \o op.tok.token
                   /\ op.tok.token = t.Value
           /\ op.tok.err # Nil
                => /\ ~op.sent
                   /\ op.resp = NoResp
                   /\ op.err = op.tok.err

\* C6 witness: a refresh fails with 401, so the API request is not sent.
C6_Witness ==
    /\ cli.tokenPlugin
    /\ op.name = "GetActiveConnections"
    /\ op.asked
    /\ op.tok.requests = 1
    /\ op.tok.err = ErrUnauthorized
    /\ ~op.sent
    /\ op.err = ErrUnauthorized

\* C7: TerminateActiveConnection(connectionID) makes one DELETE request to
\* /api/v2/connections/{connectionID}, which a client without plugins always
\* sends; it returns nil on a 2xx response and otherwise the classified
\* error (ErrUnauthorized on 401), and a second call for the same ID is
\* answered by its own response in the same way.
C7_TerminateActiveConnection ==
    op.name = "TerminateActiveConnection"
        => /\ op.req = [Method |-> "DELETE", Path |-> "/api/v2/connections/" \o op.arg,
                        Query |-> {}]
           /\ ~cli.tokenPlugin => op.sent
           /\ (op.sent /\ op.resp.neterr) => op.err = TransportErr
           /\ (op.sent /\ ~op.resp.neterr /\ op.resp.status \in 200..299) => op.err = Nil
           /\ (op.sent /\ ~op.resp.neterr /\ op.resp.status = 401)
                => op.err = ErrUnauthorized
           /\ (op.sent /\ ~op.resp.neterr /\ op.resp.status = 403)
                => op.err = ErrForbidden
           /\ (op.sent /\ ~op.resp.neterr /\ op.resp.status \notin 200..299)
                => op.err.kind \in {"sentinel", "api", "decode"}

\* C7 witness: the second call for a connection ID is answered 401.
C7_Witness ==
    /\ ~cli.tokenPlugin
    /\ op.name = "TerminateActiveConnection"
    /\ op.arg = "SFTP_002"
    /\ op.again
    /\ op.resp.status = 401
    /\ op.err = ErrUnauthorized

(***************************************************************************)
(* Claims about GetAllUsers (SpecPages).                                   *)
(***************************************************************************)
RECURSIVE Concat(_)
Concat(pages) == IF pages = <<>> THEN <<>> ELSE Head(pages) \o Concat(Tail(pages))

\* The query GetUsers sends for the k-th page of GetAllUsers.
PageQuery(k) ==
    CASE k = 1 -> {<<"limit", "500">>}
      [] k = 2 -> {<<"limit", "500">>, <<"offset", "500">>}
      [] k = 3 -> {<<"limit", "500">>, <<"offset", "1000">>}
      [] k = 4 -> {<<"limit", "500">>, <<"offset", "1500">>}
      [] OTHER -> {<<"limit", "500">>, <<"offset", "2000">>}

\* C3: GetAllUsers calls GetUsers with limit 500 and offsets 0, 500, 1000,
\* ... in that order, goes on after every page of 500 records and makes no
\* call after the first page of fewer than 500, and returns the received
\* pages concatenated in the order of the calls.
C3_GetAllUsersPaginates ==
    ga.pc # "idle"
        => /\ \A k \in 1..Len(ga.calls) :
                ga.calls[k] = [Offset |-> 500 * (k - 1), Limit |-> 500, Order |-> ""]
           /\ Len(ga.calls) > 0
                => /\ op.name = "GetUsers"
                   /\ op.req = [Method |-> "GET", Path |-> "/api/v2/users",
                                Query |-> PageQuery(Len(ga.calls))]
           /\ \A k \in 1..Len(ga.pages) :
                Len(ga.pages[k]) < 500 => (k = Len(ga.calls) /\ ga.pc = "done")
           /\ (ga.pc = "done" /\ ga.err = Nil)
                => /\ Len(ga.pages) = Len(ga.calls)
                   /\ Len(ga.pages[Len(ga.pages)]) < 500
                   /\ ga.users = Concat(ga.pages)

\* C3 witness: pages of 500 and 10 records give 510 records from two calls,
\* at offsets 0 and 500.
C3_Witness ==
    /\ ga.pc = "done"
    /\ ga.err = Nil
    /\ Len(ga.calls) = 2
    /\ ga.calls[1].Offset = 0
    /\ ga.calls[2].Offset = 500
    /\ Len(ga.pages[1]) = 500
    /\ Len(ga.pages[2]) = 10
    /\ Len(ga.users) = 510
    /\ ga.users[510].ID = 510

\* C4: when a call of GetUsers made by GetAllUsers returns an error,
\* GetAllUsers makes no further call and returns a nil list with that
\* error, however many pages it had accumulated.
C4_PageErrorAborts ==
    (ga.pc # "idle" /\ Len(ga.calls) > 0 /\ op.err # Nil)
        => /\ ga.pc = "done"
           /\ ga.users = <<>>
           /\ ga.err = op.err
           /\ Len(ga.calls) = Len(ga.pages) + 1

\* C4 witness: the second page fails after a first page of 500 records.
C4_Witness ==
    /\ ga.pc = "done"
    /\ Len(ga.calls) = 2
    /\ Len(ga.all) = 500
    /\ op.err = ErrUnauthorized
    /\ ga.err = ErrUnauthorized
    /\ ga.users = <<>>

(***************************************************************************)
(* Claims about Users.Filter (SpecFilter).                                 *)
(***************************************************************************)

\* The indices of the users of `us` for which f holds.
Kept(us, f) == {i \in 1..Len(us) : UserFilterFunc(f, us[i])}

\* res is the users of `us` for which f holds, in the order of `us`.
IsFilterOf(res, us, f) ==
    /\ Len(res) = Cardinality(Kept(us, f))
    /\ \A k \in 1..Len(res) :
          res[k] = us[CHOOSE i \in Kept(us, f) :
                          Cardinality({j \in Kept(us, f) : j <= i}) = k]

\* C8: a call of Filter returns exactly the users for which the predicate
\* holds, in their order in the receiver and with their fields as they
\* are, and leaves the receiver as it was.
C8_FilterSelects ==
    [][/\ users' = users
       /\ IsFilterOf(filtered', users, pred')]_vars

\* C8 witness: [{ID:1},{ID:2}] filtered by ID > 1 gives [{ID:2}].
C8_Witness ==
    /\ pred = "IDgt1"
    /\ users = <<User(1, 1, "u1"), User(2, 0, "u2")>>
    /\ filtered = <<User(2, 0, "u2")>>

(***************************************************************************)
(* Claims about Token() called from two goroutines (SpecConc).             *)
(***************************************************************************)
TokenOf(resp) == MemberOf(resp.body, "access_token", JNum).s
ExpiryOf(resp) == MemberOf(resp.body, "expires_at", JNum).n

\* A call that no other call overlapped sends one request exactly when it
\* found the cache stale, returns the token of a token response, and leaves
\* it cached with its expiry until the next store.
SerializedCalls ==
    \A i \in Goroutines :
        (g[i].pc = "done" /\ ~g[i].overlapped)
            => /\ g[i].requests = IF g[i].stale THEN 1 ELSE 0
               /\ (g[i].requests = 1 /\ TokenResponse(g[i].resp))
                    => /\ g[i].err = Nil
                       /\ g[i].token = TokenOf(g[i].resp)
                       /\ words.last = i
                            => /\ t.Value = TokenOf(g[i].resp)
                               /\ t.Expires = ExpiryOf(g[i].resp)

\* Every call that found the cache stale has sent its own request, whether
\* or not another call's request was in flight.
DuplicateRefresh ==
    \A i \in Goroutines :
        g[i].pc # "idle" => g[i].requests = IF g[i].stale THEN 1 ELSE 0

\* Both calls overlapped, both were answered with a token response, and
\* both have returned.
BothRefreshed ==
    \A i \in Goroutines :
        /\ g[i].pc = "done"
        /\ g[i].overlapped
        /\ g[i].requests = 1
        /\ TokenResponse(g[i].resp)

\* C10 as stated: serialized calls refresh once per expiry; overlapping
\* calls that both find the cache stale each send a request; and the cache
\* ends up holding the response that was written last.
C10_AsStated ==
    /\ SerializedCalls
    /\ DuplicateRefresh
    /\ BothRefreshed
         => /\ t.Value = TokenOf(g[words.last].resp)
            /\ t.Expires = ExpiryOf(g[words.last].resp)

\* C10 amended: serialized calls refresh once per expiry; overlapping calls
\* that both find the cache stale each send a request; and each word of the
\* cache (the data and the length of the value, the expiry) ends up as
\* written by one of the two responses, not necessarily the same one: the
\* value of one response may stay with the expiry of the other, and the
\* value may be torn.
C10_UnsynchronisedCache ==
    /\ SerializedCalls
    /\ DuplicateRefresh
    /\ BothRefreshed
         => /\ words.data \in {TokenOf(g[i].resp) : i \in Goroutines}
            /\ words.len \in {TokenOf(g[i].resp) : i \in Goroutines}
            /\ t.Value = StringOf(words.data, words.len)
            /\ t.Expires \in {ExpiryOf(g[i].resp) : i \in Goroutines}

\* C10 witness: two overlapping refreshes have returned and the cache holds
\* the value of one response with the expiry of the other.
C10_Witness ==
    /\ BothRefreshed
    /\ \E i \in Goroutines :
          /\ t.Value = TokenOf(g[i].resp)
          /\ t.Value # TokenOf(g[Other(i)].resp)
          /\ t.Expires = ExpiryOf(g[Other(i)].resp)
          /\ t.Expires # ExpiryOf(g[i].resp)

====
